---- MODULE Spec2Model ----
(***************************************************************************)
(* A model of the tablature synthesis code of guitartab_transcriber:       *)
(*   Transcriber._filter_notes, Transcriber._notes_to_guitar_positions     *)
(*   and their composition in Transcriber.transcribe (transcriber.py),     *)
(*   TabResult with its encoders and quantize_beats (tab_format.py).       *)
(*                                                                         *)
(* Units.  Times are integers in milliseconds (0.05 s = 50, 0.1 s = 100).  *)
(* Velocities are integers in tenths (0.9 = 9), so v < r * 0.8 is          *)
(* 10 * v < 8 * r.  Beat values are integers in 1/6000 of a beat           *)
(* (0.25 beat = 1500), so seconds * bpm / 60 is ms * bpm / 10.             *)
(***************************************************************************)
EXTENDS Integers, Sequences, FiniteSets, TLC

VARIABLES
    pc,                 \* position of the running call
    \* Transcriber._filter_notes
    notes,              \* the list object passed in (shared with the caller)
    groups,             \* simultaneity groups
    gi,                 \* index of the group the harmonic loop is at
    filtered_notes,
    final_result,
    \* Transcriber._notes_to_guitar_positions
    pnotes,             \* the argument `notes`
    idx,                \* index of the note the loop is at
    first_start,
    tab_events,
    current_hand_pos,
    \* TabResult and one call of one of its methods
    events,             \* TabResult.events
    bpm,                \* TabResult.bpm: <<>> is None, <<b>> is the number b
    text_out,           \* what to_text returned
    json_out,           \* what to_json returned
    decoded,            \* the TabResult decoded from json_out, <<>> before
    compile_output,     \* to_lilypond's argument: <<>> is None, <<p>> a path
    quantized_events,
    grouped_events,
    tokens,
    ly_file,            \* the file at ly_path: <<>> absent, <<c>> its content
    which_result,       \* shutil.which(...): "not called", "None" or a path
    renderer_runs,      \* the argument lists handed to subprocess.run
    raised,             \* the exception that left to_lilypond, or "none"
    returned,           \* what to_lilypond returned: <<>> not yet, <<p>> a path
    \* quantize_beats applied to a beat value, and to its own result
    beat_value,         \* the argument `beats`
    quantized_once,     \* <<>> not yet, <<q>> quantize_beats(beats)
    quantized_twice     \* <<>> not yet, <<q>> quantize_beats of quantized_once

filterVars == <<notes, groups, gi, filtered_notes, final_result>>
posVars == <<pnotes, idx, first_start, tab_events, current_hand_pos>>
tabVars == <<events, bpm, text_out, json_out, decoded, compile_output,
             quantized_events, grouped_events, tokens, ly_file, which_result,
             renderer_runs, raised, returned>>
quantVars == <<beat_value, quantized_once, quantized_twice>>
vars == <<pc, filterVars, posVars, tabVars, quantVars>>

(***************************************************************************)
(* Bounds of the model.                                                    *)
(***************************************************************************)
MaxNotes == 3
MaxEvents == 3

Abs(x) == IF x < 0 THEN 0 - x ELSE x

Note(s, e, p, v) == [start |-> s, end |-> e, pitch |-> p, velocity |-> v]

SeqsUpTo(S, n) == UNION {[1..k -> S] : k \in 0..n}

(***************************************************************************)
(* Transcriber._notes_to_guitar_positions                                  *)
(***************************************************************************)

\* The open_strings dict: string number -> open MIDI pitch (E standard).
open_strings == [s \in 1..6 |->
    CASE s = 6 -> 40 [] s = 5 -> 45 [] s = 4 -> 50
      [] s = 3 -> 55 [] s = 2 -> 59 [] s = 1 -> 64]

StringOrderAscending == <<1, 2, 3, 4, 5, 6>>

\* Iteration order of open_strings.items(): insertion order of the dict.
StringOrder == <<6, 5, 4, 3, 2, 1>>

MaxFret == 20

FretInRangeNoLower(fret) == fret <= MaxFret

\* `if 0 <= fret <= 20`
FretInRange(fret) == 0 <= fret /\ fret <= MaxFret

\* The loop building possible_positions for one note.
possible_positions(pitch) ==
    LET all == [i \in 1..Len(StringOrder) |->
                   [string |-> StringOrder[i],
                    fret |-> pitch - open_strings[StringOrder[i]]]]
        ok(pos) == FretInRange(pos.fret)
    IN SelectSeq(all, ok)

HighFretFrom == 12
HighFretFactor == 2

calculate_cost_open_not_free(pos, hand) ==
    (IF hand = 0 THEN 0 ELSE Abs(pos.fret - hand))
    + (IF pos.fret > HighFretFrom
       THEN (pos.fret - HighFretFrom) * HighFretFactor ELSE 0)

\* The closure calculate_cost(pos), reading current_hand_pos (hand).
calculate_cost(pos, hand) ==
    LET fret == pos.fret
        fret_dist == IF fret = 0 THEN 0
                     ELSE IF hand = 0 THEN 0
                     ELSE Abs(fret - hand)
        high_fret_penalty == IF fret > HighFretFrom
                             THEN (fret - HighFretFrom) * HighFretFactor
                             ELSE 0
    IN fret_dist + high_fret_penalty

\* min(possible_positions, key=calculate_cost): the first element of least key.
RECURSIVE MinByCost(_, _)
MinByCost(positions, hand) ==
    IF Len(positions) = 1 THEN positions[1]
    ELSE LET best == MinByCost(SubSeq(positions, 1, Len(positions) - 1), hand)
             last == positions[Len(positions)]
         IN IF calculate_cost(last, hand) < calculate_cost(best, hand)
            THEN last ELSE best

ShiftedEndFloor == 100

ShiftedStartUnshifted(n, first) == n.start

\* `shifted_start = n.start - first_start`, clamped at 0.
ShiftedStart(n, first) ==
    LET shifted_start == n.start - first
    IN IF shifted_start < 0 THEN 0 ELSE shifted_start

\* `shifted_end = n.end - first_start`, set to 0.1 when negative.
ShiftedEnd(n, first) ==
    LET shifted_end == n.end - first
    IN IF shifted_end < 0 THEN ShiftedEndFloor ELSE shifted_end

HandAfterAlways(fret, hand) == fret

\* `if best_pos["fret"] > 0: current_hand_pos = best_pos["fret"]`
HandAfter(fret, hand) == IF fret > 0 THEN fret ELSE hand

\* `if not notes: return []`
PosReturnEmpty ==
    /\ pc = "pos_call"
    /\ pnotes = <<>>
    /\ pc' = "pos_done"
    /\ tab_events' = <<>>
    /\ UNCHANGED <<pnotes, idx, first_start, current_hand_pos, filterVars, tabVars, quantVars>>

\* first_start, tab_events = [], current_hand_pos = 0
PosStart ==
    /\ pc = "pos_call"
    /\ pnotes # <<>>
    /\ first_start' = pnotes[1].start
    /\ tab_events' = <<>>
    /\ current_hand_pos' = 0
    /\ idx' = 1
    /\ pc' = "pos_loop"
    /\ UNCHANGED <<pnotes, filterVars, tabVars, quantVars>>

\* One iteration of `for n in notes` that ends in `continue`.
PosSkip ==
    /\ pc = "pos_loop"
    /\ idx <= Len(pnotes)
    /\ possible_positions(pnotes[idx].pitch) = <<>>
    /\ idx' = idx + 1
    /\ UNCHANGED <<pc, pnotes, first_start, tab_events, current_hand_pos, filterVars, tabVars, quantVars>>

\* One iteration of `for n in notes` that appends an event.
PosEmit ==
    /\ pc = "pos_loop"
    /\ idx <= Len(pnotes)
    /\ LET n == pnotes[idx]
           positions == possible_positions(n.pitch)
       IN /\ positions # <<>>
          /\ LET best_pos == MinByCost(positions, current_hand_pos)
             IN /\ tab_events' = Append(tab_events,
                       [string |-> best_pos.string,
                        fret |-> best_pos.fret,
                        start |-> ShiftedStart(n, first_start),
                        end |-> ShiftedEnd(n, first_start)])
                /\ current_hand_pos' = HandAfter(best_pos.fret, current_hand_pos)
    /\ idx' = idx + 1
    /\ UNCHANGED <<pc, pnotes, first_start, filterVars, tabVars, quantVars>>

\* `return tab_events`
PosReturn ==
    /\ pc = "pos_loop"
    /\ idx > Len(pnotes)
    /\ pc' = "pos_done"
    /\ UNCHANGED <<posVars, filterVars, tabVars, quantVars>>

(***************************************************************************)
(* Transcriber._filter_notes                                               *)
(***************************************************************************)

Front(s) == SubSeq(s, 1, Len(s) - 1)

RECURSIVE InsertByStart(_, _)
\* x placed after every element whose start is <= x.start (a stable sort).
InsertByStart(sorted, x) ==
    IF sorted = <<>> THEN <<x>>
    ELSE IF sorted[Len(sorted)].start <= x.start THEN Append(sorted, x)
    ELSE Append(InsertByStart(Front(sorted), x), sorted[Len(sorted)])

RECURSIVE SortByStart(_)
\* notes.sort(key=lambda n: n.start)
SortByStart(ns) ==
    IF ns = <<>> THEN <<>>
    ELSE InsertByStart(SortByStart(Front(ns)), ns[Len(ns)])

RECURSIVE InsertByPitch(_, _)
InsertByPitch(sorted, x) ==
    IF sorted = <<>> THEN <<x>>
    ELSE IF sorted[Len(sorted)].pitch <= x.pitch THEN Append(sorted, x)
    ELSE Append(InsertByPitch(Front(sorted), x), sorted[Len(sorted)])

RECURSIVE SortByPitch(_)
\* group.sort(key=lambda n: n.pitch)
SortByPitch(ns) ==
    IF ns = <<>> THEN <<>>
    ELSE InsertByPitch(SortByPitch(Front(ns)), ns[Len(ns)])

GroupWindow == 50

RECURSIVE GroupByStart(_)
\* The grouping loop over the sorted, non-empty notes: a note joins the
\* current group when its start is within 0.05 s of the group's first note.
GroupByStart(ns) ==
    IF Len(ns) = 1 THEN << <<ns[1]>> >>
    ELSE LET gs == GroupByStart(Front(ns))
             current_group == gs[Len(gs)]
             n == ns[Len(ns)]
         IN IF Abs(n.start - current_group[1].start) < GroupWindow
            THEN [gs EXCEPT ![Len(gs)] = Append(current_group, n)]
            ELSE Append(gs, <<n>>)

is_harmonic_octave_only(note, root) ==
    /\ note.pitch - root.pitch \in {12, 24}
    /\ 10 * note.velocity < 8 * root.velocity

\* The flag is_harmonic of one non-root note of a group.
is_harmonic(note, root) ==
    LET interval == note.pitch - root.pitch
    IN \/ /\ interval \in {12, 24, 7, 19}
          /\ 10 * note.velocity < 8 * root.velocity
       \/ /\ interval \in {4, 16}
          /\ 10 * note.velocity < 5 * root.velocity

\* kept_notes of a group already sorted by pitch.
kept_notes(group) ==
    LET root == group[1]
        keep(n) == ~is_harmonic(n, root)
    IN <<root>> \o SelectSeq(Tail(group), keep)

MinDuration == 50
NoisePitchAbove == 75
NoiseVelocityBelow == 3

SurvivesCleanupAnyDuration(n) ==
    ~(n.pitch > NoisePitchAbove /\ n.velocity < NoiseVelocityBelow)

\* The cleanup loop's test: the note is appended to final_result.
SurvivesCleanup(n) ==
    /\ ~(n.end - n.start < MinDuration)
    /\ ~(n.pitch > NoisePitchAbove /\ n.velocity < NoiseVelocityBelow)

\* notes.sort(...); `if not notes: return []`
FilterReturnEmpty ==
    /\ pc = "filter_call"
    /\ notes = <<>>
    /\ final_result' = <<>>
    /\ pc' = "filter_done"
    /\ UNCHANGED <<notes, groups, gi, filtered_notes, posVars, tabVars, quantVars>>

\* notes.sort(...) in place, then the grouping loop.
FilterSortAndGroup ==
    /\ pc = "filter_call"
    /\ notes # <<>>
    /\ notes' = SortByStart(notes)
    /\ groups' = GroupByStart(notes')
    /\ filtered_notes' = <<>>
    /\ gi' = 1
    /\ pc' = "filter_harmonic"
    /\ UNCHANGED <<final_result, posVars, tabVars, quantVars>>

\* `for group in groups` on a group of one note.
FilterSingle ==
    /\ pc = "filter_harmonic"
    /\ gi <= Len(groups)
    /\ Len(groups[gi]) = 1
    /\ filtered_notes' = Append(filtered_notes, groups[gi][1])
    /\ gi' = gi + 1
    /\ UNCHANGED <<pc, notes, groups, final_result, posVars, tabVars, quantVars>>

\* `for group in groups` on a group of several notes: the group is sorted by
\* pitch in place and its kept notes are appended.
FilterHarmonic ==
    /\ pc = "filter_harmonic"
    /\ gi <= Len(groups)
    /\ Len(groups[gi]) > 1
    /\ groups' = [groups EXCEPT ![gi] = SortByPitch(groups[gi])]
    /\ filtered_notes' = filtered_notes \o kept_notes(groups'[gi])
    /\ gi' = gi + 1
    /\ UNCHANGED <<pc, notes, final_result, posVars, tabVars, quantVars>>

\* The cleanup loop and `return final_result`.
FilterCleanup ==
    /\ pc = "filter_harmonic"
    /\ gi > Len(groups)
    /\ final_result' = SelectSeq(filtered_notes, SurvivesCleanup)
    /\ pc' = "filter_done"
    /\ UNCHANGED <<notes, groups, gi, filtered_notes, posVars, tabVars, quantVars>>

(***************************************************************************)
(* TabResult: from_tab_events, to_text, to_json                            *)
(***************************************************************************)

TabEventEndFromStart(e) ==
    [string |-> e.string, fret |-> e.fret, start |-> e.start, end |-> e.start]

\* TabEvent(string=e["string"], fret=e["fret"], start=e["start"], end=e["end"])
TabEvent(e) ==
    [string |-> e.string, fret |-> e.fret, start |-> e.start, end |-> e.end]

\* TabResult.from_tab_events(events, bpm): the (events, bpm) of the result.
from_tab_events(dicts, b) ==
    [events |-> [i \in 1..Len(dicts) |-> TabEvent(dicts[i])], bpm |-> b]

Digits == <<"0", "1", "2", "3", "4", "5", "6", "7", "8", "9">>

RECURSIVE Str(_)
\* str(n) of a non-negative integer.
Str(n) == IF n < 10 THEN Digits[n + 1]
          ELSE Str(n \div 10) \o Digits[(n % 10) + 1]

\* s.rjust(2, "-")
Rjust2(s) == IF Len(s) >= 2 THEN s ELSE "-" \o s

RECURSIVE TextRow(_, _)
\* lines[s]: one cell per event of sorted_events, joined.
TextRow(sorted_events, s) ==
    IF sorted_events = <<>> THEN ""
    ELSE LET e == sorted_events[Len(sorted_events)]
         IN TextRow(Front(sorted_events), s)
            \o (IF s = e.string THEN Rjust2(Str(e.fret)) ELSE "--")

RECURSIVE JoinLines(_)
\* "\n".join(result_lines)
JoinLines(ls) ==
    IF Len(ls) = 1 THEN ls[1]
    ELSE JoinLines(Front(ls)) \o "\n" \o ls[Len(ls)]

\* TabResult.to_text
to_text(evs) ==
    IF evs = <<>> THEN "(no notes)"
    ELSE LET sorted_events == SortByStart(evs)
             result_lines == [s \in 1..6 |->
                                 Str(s) \o "|" \o TextRow(sorted_events, s)]
         IN JoinLines(result_lines)

\* TabResult.to_json
to_json(evs, b) ==
    [events |-> [i \in 1..Len(evs) |->
                    [string |-> evs[i].string, fret |-> evs[i].fret,
                     start |-> evs[i].start, end |-> evs[i].end]],
     bpm |-> b]

\* One call of to_text.
ToText ==
    /\ pc = "tab_idle"
    /\ text_out' = <<to_text(events)>>
    /\ pc' = "text_returned"
    /\ UNCHANGED <<events, bpm, json_out, decoded, compile_output, quantized_events,
                   grouped_events, tokens, ly_file, which_result,
                   renderer_runs, raised, returned, filterVars, posVars, quantVars>>

\* One call of to_json.
ToJson ==
    /\ pc = "tab_idle"
    /\ json_out' = <<to_json(events, bpm)>>
    /\ pc' = "json_returned"
    /\ UNCHANGED <<events, bpm, text_out, decoded, compile_output, quantized_events,
                   grouped_events, tokens, ly_file, which_result,
                   renderer_runs, raised, returned, filterVars, posVars, quantVars>>

\* TabResult.from_tab_events(j["events"], bpm=j["bpm"]) on the dict j that
\* to_json returned.
FromJson ==
    /\ pc = "json_returned"
    /\ decoded' = <<from_tab_events(json_out[1].events, json_out[1].bpm)>>
    /\ pc' = "json_decoded"
    /\ UNCHANGED <<events, bpm, text_out, json_out, compile_output,
                   quantized_events, grouped_events, tokens, ly_file,
                   which_result, renderer_runs, raised, returned, filterVars,
                   posVars, quantVars>>

(***************************************************************************)
(* TabResult._build_lilypond_source and TabResult.to_lilypond              *)
(***************************************************************************)

DefaultBpm == 120

\* `bpm = self.bpm or 120`
EffectiveBpm(b) == IF b = <<>> \/ b[1] = 0 THEN DefaultBpm ELSE b[1]

\* `event.start * beats_per_second` with beats_per_second = bpm / 60, from
\* milliseconds to 1/6000 beat.
ToBeats(ms, b) == (ms * EffectiveBpm(b)) \div 10

\* The duration_table, in 1/6000 beat.
duration_table ==
    << <<24000, "1">>, <<12000, "2">>, <<6000, "4">>,
       <<3000, "8">>, <<1500, "16">>, <<750, "32">> >>

MinDurationBeats == 750

RECURSIVE NearestDuration(_, _)
\* min(table, key=lambda d: abs(d[0] - beats)): the first entry of least key.
NearestDuration(table, beats) ==
    IF Len(table) = 1 THEN table[1]
    ELSE LET best == NearestDuration(Front(table), beats)
             last == table[Len(table)]
         IN IF Abs(last[1] - beats) < Abs(best[1] - beats) THEN last ELSE best

\* quantize_duration
quantize_duration(beats) ==
    LET clamped == IF beats > MinDurationBeats THEN beats ELSE MinDurationBeats
    IN NearestDuration(duration_table, clamped)[2]

note_names ==
    <<"c", "cis", "d", "ees", "e", "f", "fis", "g", "gis", "a", "bes", "b">>

RECURSIVE Repeat(_, _)
\* str * n
Repeat(str, n) == IF n <= 0 THEN "" ELSE str \o Repeat(str, n - 1)

\* midi_to_pitch
midi_to_pitch(midi) ==
    LET name == note_names[(midi % 12) + 1]
        octave == (midi - 48) \div 12
    IN IF octave > 0 THEN name \o Repeat("'", octave)
       ELSE IF octave < 0 THEN name \o Repeat(",", 0 - octave)
       ELSE name

\* Python's round(n / d) for d > 0: to the nearest integer, a tie to the
\* even one.
RoundHalfEven(n, d) ==
    LET q == n \div d
        r == n % d
    IN IF 2 * r < d THEN q
       ELSE IF 2 * r > d THEN q + 1
       ELSE IF q % 2 = 0 THEN q ELSE q + 1

Grid == 1500

quantize_beats_floor(beats) == (beats \div Grid) * Grid

quantize_beats_half_scale(beats) == RoundHalfEven(beats, Grid) * (Grid \div 2)

\* quantize_beats: `round(beats / grid) * grid` with grid = 0.25.
quantize_beats(beats) == RoundHalfEven(beats, Grid) * Grid

MinLength == 750

\* The dict appended to quantized_events for one event.
QuantizedEvent(event, b) ==
    LET start_beats == ToBeats(event.start, b)
        end_beats == ToBeats(event.end, b)
        q_start == quantize_beats(start_beats)
        q_end == quantize_beats(end_beats)
    IN [start |-> q_start,
        end |-> IF q_end <= q_start THEN q_start + MinLength ELSE q_end,
        event |-> event]

\* Lines 193 and 246-264: the events sorted by start, quantized, and the
\* quantized events sorted by start.
QuantizeAll(evs, b) ==
    LET sorted_events == SortByStart(evs)
    IN SortByStart([i \in 1..Len(sorted_events) |->
                       QuantizedEvent(sorted_events[i], b)])

OneBeat == 6000

RECURSIVE LegatoFrom(_, _)
\* The legato loop from index i on: curr["end"] = next_evt["start"] when
\* 0 < gap < 1.0.
LegatoFrom(q, i) ==
    IF i > Len(q) - 1 THEN q
    ELSE LET gap == q[i + 1].start - q[i].end
         IN LegatoFrom(IF 0 < gap /\ gap < OneBeat
                       THEN [q EXCEPT ![i].end = q[i + 1].start]
                       ELSE q,
                       i + 1)

ChordTolerance == 60

RECURSIVE GroupChords(_)
\* The grouping loop over the non-empty quantized events: an event joins the
\* current group when its start is within 0.01 of the group's last member's.
GroupChords(q) ==
    IF Len(q) = 1 THEN << <<q[1]>> >>
    ELSE LET gs == GroupChords(Front(q))
             current_group == gs[Len(gs)]
             prev == current_group[Len(current_group)]
             curr == q[Len(q)]
         IN IF Abs(curr.start - prev.start) < ChordTolerance
            THEN [gs EXCEPT ![Len(gs)] = Append(current_group, curr)]
            ELSE Append(gs, <<curr>>)

RECURSIVE MaxEnd(_)
\* max(e["end"] for e in group)
MaxEnd(group) ==
    IF Len(group) = 1 THEN group[1].end
    ELSE LET m == MaxEnd(Front(group))
         IN IF group[Len(group)].end > m THEN group[Len(group)].end ELSE m

RECURSIVE JoinSpaces(_)
\* " ".join(parts)
JoinSpaces(parts) ==
    IF Len(parts) = 1 THEN parts[1]
    ELSE JoinSpaces(Front(parts)) \o " " \o parts[Len(parts)]

MinValidPitch == 40
MaxValidPitch == 88

\* valid_notes of one group.
valid_notes(group) ==
    LET all == [i \in 1..Len(group) |->
                   [pitch |-> open_strings[group[i].event.string]
                                + group[i].event.fret,
                    string |-> group[i].event.string]]
        ok(n) == MinValidPitch <= n.pitch /\ n.pitch <= MaxValidPitch
    IN SelectSeq(all, ok)

\* The token of a group with valid notes vn and duration string dur_str.
NoteToken(vn, dur_str) ==
    IF Len(vn) = 1
    THEN midi_to_pitch(vn[1].pitch) \o dur_str \o "\\" \o Str(vn[1].string)
    ELSE "<" \o JoinSpaces([i \in 1..Len(vn) |->
                 midi_to_pitch(vn[i].pitch) \o "\\" \o Str(vn[i].string)])
         \o ">" \o dur_str

RestThreshold == 300

RECURSIVE TokenLoop(_, _, _, _)
\* `for group in grouped_events` from group k on, with the tokens so far and
\* previous_end_beats.
TokenLoop(gs, k, toks, previous_end_beats) ==
    IF k > Len(gs) THEN toks
    ELSE LET group == gs[k]
             start_beats == group[1].start
             end_beats == MaxEnd(group)
             gap == start_beats - previous_end_beats
             with_rest == IF gap > RestThreshold
                          THEN Append(toks, "r" \o quantize_duration(gap))
                          ELSE toks
             dur_str == quantize_duration(end_beats - start_beats)
             vn == valid_notes(group)
         IN IF vn = <<>>
            THEN TokenLoop(gs, k + 1, with_rest, previous_end_beats)
            ELSE TokenLoop(gs, k + 1, Append(with_rest, NoteToken(vn, dur_str)),
                           end_beats)

TokensPerLine == 8

RECURSIVE TokenLines(_)
\* token_lines: the tokens in lines of 8, each joined by spaces.
TokenLines(toks) ==
    IF toks = <<>> THEN <<>>
    ELSE IF Len(toks) <= TokensPerLine THEN <<JoinSpaces(toks)>>
    ELSE <<JoinSpaces(SubSeq(toks, 1, TokensPerLine))>>
         \o TokenLines(SubSeq(toks, TokensPerLine + 1, Len(toks)))

RECURSIVE JoinBlock(_)
\* "\n  ".join(token_lines)
JoinBlock(ls) ==
    IF ls = <<>> THEN ""
    ELSE IF Len(ls) = 1 THEN ls[1]
    ELSE JoinBlock(Front(ls)) \o "\n  " \o ls[Len(ls)]

\* The string _build_lilypond_source returns, from the tokens.
LilypondSource(title, toks, b) ==
    "\\version \"2.24.0\"\n"
    \o "\\header { title = \"" \o title \o "\" }\n\n"
    \o "music = {\n"
    \o "  \\tempo 4 = " \o Str(EffectiveBpm(b)) \o "\n  "
    \o JoinBlock(TokenLines(toks)) \o "\n"
    \o "}\n\n"
    \o "\\score {\n"
    \o "  <<\n"
    \o "    \\new Staff { \\clef \"treble\" \\music }\n"
    \o "    \\new TabStaff { \\clef \"moderntab\" \\tabFullNotation \\music }\n"
    \o "  >>\n"
    \o "  \\layout { }\n"
    \o "  \\midi { }\n"
    \o "}\n"

\* The compile_output values of the runs: None and one path per suffix case.
CompileOutputs ==
    {<<>>, <<"score.svg">>, <<"score.PNG">>, <<"score.pdf">>, <<"score.txt">>}

\* compile_path.suffix.lower().lstrip(".")
output_format(path) ==
    CASE path = "score.svg" -> "svg"
      [] path = "score.PNG" -> "png"
      [] path = "score.pdf" -> "pdf"
      [] OTHER -> "txt"

\* format_flag, for the three accepted formats.
format_flag(fmt) ==
    CASE fmt = "svg" -> <<"--svg">>
      [] fmt = "png" -> <<"--png">>
      [] OTHER -> <<>>

LyTitle == "Guitar TAB"
LyPath == "result.ly"
LyExecutable == "lilypond"
LyExecutablePath == "/usr/bin/lilypond"

lyCallVars == <<events, bpm, text_out, json_out, decoded>>

LyRaiseEmptyAfterWrite ==
    /\ pc = "tab_idle"
    /\ events = <<>>
    /\ \E co \in CompileOutputs : compile_output' = co
    /\ ly_file' = <<LilypondSource(LyTitle, <<>>, bpm)>>
    /\ raised' = "ValueError"
    /\ pc' = "ly_raised"
    /\ UNCHANGED <<lyCallVars, which_result, quantized_events, grouped_events, tokens,
                   renderer_runs, returned, filterVars, posVars, quantVars>>

\* to_lilypond on a TabResult without events: `raise ValueError(...)`.
LyRaiseEmpty ==
    /\ pc = "tab_idle"
    /\ events = <<>>
    /\ \E co \in CompileOutputs : compile_output' = co
    /\ raised' = "ValueError"
    /\ pc' = "ly_raised"
    /\ UNCHANGED <<lyCallVars, which_result, quantized_events, grouped_events, tokens,
                   ly_file, renderer_runs, returned, filterVars, posVars, quantVars>>

\* to_lilypond with events: _build_lilypond_source up to the sorted
\* quantized_events.
LyQuantize ==
    /\ pc = "tab_idle"
    /\ events # <<>>
    /\ \E co \in CompileOutputs : compile_output' = co
    /\ quantized_events' = QuantizeAll(events, bpm)
    /\ pc' = "ly_legato"
    /\ UNCHANGED <<lyCallVars, which_result, grouped_events, tokens, ly_file, renderer_runs,
                   raised, returned, filterVars, posVars, quantVars>>

\* The legato loop.
LyLegato ==
    /\ pc = "ly_legato"
    /\ quantized_events' = LegatoFrom(quantized_events, 1)
    /\ pc' = "ly_group"
    /\ UNCHANGED <<lyCallVars, which_result, compile_output, grouped_events, tokens, ly_file,
                   renderer_runs, raised, returned, filterVars, posVars, quantVars>>

\* The chord grouping loop.
LyGroup ==
    /\ pc = "ly_group"
    /\ grouped_events' = GroupChords(quantized_events)
    /\ pc' = "ly_tokens"
    /\ UNCHANGED <<lyCallVars, which_result, compile_output, quantized_events, tokens, ly_file,
                   renderer_runs, raised, returned, filterVars, posVars, quantVars>>

\* The token loop.
LyTokens ==
    /\ pc = "ly_tokens"
    /\ tokens' = TokenLoop(grouped_events, 1, <<>>, 0)
    /\ pc' = "ly_write"
    /\ UNCHANGED <<lyCallVars, which_result, compile_output, quantized_events, grouped_events,
                   ly_file, renderer_runs, raised, returned, filterVars, posVars, quantVars>>

\* ly_path.write_text(lilypond_source); `return ly_path` when compile_output
\* is None.
LyWrite ==
    /\ pc = "ly_write"
    /\ ly_file' = <<LilypondSource(LyTitle, tokens, bpm)>>
    /\ IF compile_output = <<>>
       THEN returned' = <<LyPath>> /\ pc' = "ly_returned"
       ELSE returned' = returned /\ pc' = "ly_compile"
    /\ UNCHANGED <<lyCallVars, which_result, compile_output, quantized_events, grouped_events,
                   tokens, renderer_runs, raised, filterVars, posVars, quantVars>>

\* `raise ValueError("compile_output must end with .svg, .png, or .pdf")`
LyBadSuffix ==
    /\ pc = "ly_compile"
    /\ output_format(compile_output[1]) \notin {"svg", "png", "pdf"}
    /\ raised' = "ValueError"
    /\ pc' = "ly_raised"
    /\ UNCHANGED <<lyCallVars, which_result, compile_output, quantized_events, grouped_events,
                   tokens, ly_file, renderer_runs, returned, filterVars, posVars, quantVars>>

LyRunWithoutExecutable ==
    /\ pc = "ly_which"
    /\ which_result = "None"
    /\ renderer_runs' = Append(renderer_runs,
            <<LyExecutable>> \o format_flag(output_format(compile_output[1]))
            \o <<"-o", "score", LyPath>>)
    /\ raised' = "CalledProcessError"
    /\ pc' = "ly_raised"
    /\ UNCHANGED <<lyCallVars, which_result, compile_output, quantized_events,
                   grouped_events, tokens, ly_file, returned, filterVars,
                   posVars, quantVars>>

\* The suffix is one of the three: shutil.which(lilypond_executable) looks
\* the executable up in the PATH of the moment and gives None or its path.
LyWhich ==
    /\ pc = "ly_compile"
    /\ output_format(compile_output[1]) \in {"svg", "png", "pdf"}
    /\ \E w \in {"None", LyExecutablePath} : which_result' = w
    /\ pc' = "ly_which"
    /\ UNCHANGED <<lyCallVars, compile_output, quantized_events, grouped_events,
                   tokens, ly_file, renderer_runs, raised, returned, filterVars,
                   posVars, quantVars>>

\* shutil.which(lilypond_executable) is None: `raise FileNotFoundError(...)`.
LyNotFound ==
    /\ pc = "ly_which"
    /\ which_result = "None"
    /\ raised' = "FileNotFoundError"
    /\ pc' = "ly_raised"
    /\ UNCHANGED <<lyCallVars, which_result, compile_output, quantized_events, grouped_events,
                   tokens, ly_file, renderer_runs, returned, filterVars, posVars, quantVars>>

\* The executable is found: subprocess.run([...], check=True), which returns
\* or raises CalledProcessError; then `return compile_path`.
LyRun ==
    /\ pc = "ly_which"
    /\ which_result # "None"
    /\ renderer_runs' = Append(renderer_runs,
            <<LyExecutable>> \o format_flag(output_format(compile_output[1]))
            \o <<"-o", "score", LyPath>>)
    /\ \E exit_ok \in BOOLEAN :
        IF exit_ok
        THEN returned' = compile_output /\ raised' = raised /\ pc' = "ly_returned"
        ELSE returned' = returned /\ raised' = "CalledProcessError"
             /\ pc' = "ly_raised"
    /\ UNCHANGED <<lyCallVars, which_result, compile_output, quantized_events, grouped_events,
                   tokens, ly_file, filterVars, posVars, quantVars>>

\* quantize_beats(beats)
QuantizeOnce ==
    /\ pc = "quantize_call"
    /\ quantized_once' = <<quantize_beats(beat_value)>>
    /\ pc' = "quantize_once"
    /\ UNCHANGED <<beat_value, quantized_twice, filterVars, posVars, tabVars>>

\* quantize_beats applied to the value it returned.
QuantizeAgain ==
    /\ pc = "quantize_once"
    /\ quantized_twice' = <<quantize_beats(quantized_once[1])>>
    /\ pc' = "quantize_twice"
    /\ UNCHANGED <<beat_value, quantized_once, filterVars, posVars, tabVars>>

(***************************************************************************)
(* Transcriber.transcribe: the tablature synthesis after note detection    *)
(***************************************************************************)

\* `events = self._notes_to_guitar_positions(notes)` on the notes that
\* _filter_notes returned.
TranscribeCallPositions ==
    /\ pc = "filter_done"
    /\ pnotes' = final_result
    /\ pc' = "pos_call"
    /\ UNCHANGED <<idx, first_start, tab_events, current_hand_pos, filterVars,
                   tabVars, quantVars>>

TranscribeBpms == {60, 120}

\* `return TabResult.from_tab_events(events, bpm=final_bpm)`
TranscribeReturn ==
    /\ pc = "pos_done"
    /\ \E final_bpm \in TranscribeBpms :
        LET result == from_tab_events(tab_events, <<final_bpm>>)
        IN events' = result.events /\ bpm' = result.bpm
    /\ pc' = "transcribed"
    /\ UNCHANGED <<text_out, json_out, decoded, compile_output, quantized_events,
                   grouped_events, tokens, ly_file, which_result, renderer_runs,
                   raised, returned, filterVars, posVars, quantVars>>

\* Inputs of the fingering runs: notes out of time order, below and above
\* the playable range, and pitches with several candidate positions.
PosTimedPitches == {39, 40, 45}
PosStarts == {0, 500, 1000}
PosPitchesAtZero == {57, 64, 84, 85}

PosNotes ==
    {Note(s, s + 500, p, 9) : s \in PosStarts, p \in PosTimedPitches}
    \cup {Note(0, 500, p, 9) : p \in PosPitchesAtZero}

QuantIdle ==
    /\ beat_value = 0
    /\ quantized_once = <<>>
    /\ quantized_twice = <<>>

FilterIdle ==
    /\ notes = <<>>
    /\ groups = <<>>
    /\ gi = 1
    /\ filtered_notes = <<>>
    /\ final_result = <<>>

\* No method of the TabResult has been called: nothing returned, nothing
\* raised, no file written, the renderer not run.
TabCallIdle ==
    /\ text_out = <<>>
    /\ json_out = <<>>
    /\ decoded = <<>>
    /\ compile_output = <<>>
    /\ quantized_events = <<>>
    /\ grouped_events = <<>>
    /\ tokens = <<>>
    /\ ly_file = <<>>
    /\ which_result = "not called"
    /\ renderer_runs = <<>>
    /\ raised = "none"
    /\ returned = <<>>

TabIdle ==
    /\ events = <<>>
    /\ bpm = <<>>
    /\ TabCallIdle

PosIdle ==
    /\ pnotes = <<>>
    /\ idx = 1
    /\ first_start = 0
    /\ tab_events = <<>>
    /\ current_hand_pos = 0

InitPositions ==
    /\ pc = "pos_call"
    /\ pnotes \in SeqsUpTo(PosNotes, MaxNotes)
    /\ idx = 1
    /\ first_start = 0
    /\ tab_events = <<>>
    /\ current_hand_pos = 0
    /\ FilterIdle
    /\ TabIdle
    /\ QuantIdle

NextPositions == PosReturnEmpty \/ PosStart \/ PosSkip \/ PosEmit \/ PosReturn

SpecPositions == InitPositions /\ [][NextPositions]_vars

\* Inputs of the filter runs: roots at three starts (0.00 and 0.03 s share a
\* group, 0.06 s opens the next), thirds and octaves at weak, boundary and
\* strong velocities, a fifth, the intervals 16, 19 and 24, a weaker root,
\* a quiet high note and a note shorter than 0.05 s.
FilterNotes ==
    {Note(0, 500, p, v) : p \in {56, 64}, v \in {4, 5, 9}}
    \cup {Note(s, s + 500, 52, 10) : s \in {0, 30, 60}}
    \cup {Note(s, s + 500, 64, 5) : s \in {30, 60}}
    \cup {Note(0, 500, 52, 5), Note(0, 500, 59, 5), Note(0, 500, 68, 4),
          Note(0, 500, 71, 5), Note(30, 530, 76, 2), Note(0, 40, 52, 10)}

InitFilter ==
    /\ pc = "filter_call"
    /\ notes \in SeqsUpTo(FilterNotes, MaxNotes)
    /\ groups = <<>>
    /\ gi = 1
    /\ filtered_notes = <<>>
    /\ final_result = <<>>
    /\ PosIdle
    /\ TabIdle
    /\ QuantIdle

NextFilter ==
    FilterReturnEmpty \/ FilterSortAndGroup \/ FilterSingle \/ FilterHarmonic
    \/ FilterCleanup

SpecFilter == InitFilter /\ [][NextFilter]_vars

\* Inputs of the TabResult runs, at 120 bpm (no bpm is 120) and 60 bpm: two
\* positions on different strings; events that start together, 0.75 and 1.0
\* beat after another's end, off the 1/4-beat grid (0.1 s) and on a rounding
\* tie (0.125 s at 60 bpm).
TabTimes == {<<0, 125>>, <<0, 250>>, <<100, 250>>, <<625, 750>>}
TabPositions == {<<6, 0>>, <<5, 2>>}
TabBpms == {<<>>, <<60>>, <<120>>}

TabEvents ==
    {[string |-> p[1], fret |-> p[2], start |-> t[1], end |-> t[2]] :
        p \in TabPositions, t \in TabTimes}

InitTab ==
    /\ pc = "tab_idle"
    /\ events \in SeqsUpTo(TabEvents, MaxEvents)
    /\ bpm \in TabBpms
    /\ TabCallIdle
    /\ FilterIdle
    /\ PosIdle
    /\ QuantIdle

NextTab ==
    ToText \/ ToJson \/ FromJson \/ LyRaiseEmpty \/ LyQuantize \/ LyLegato \/ LyGroup
    \/ LyTokens \/ LyWrite \/ LyBadSuffix \/ LyWhich \/ LyNotFound \/ LyRun

SpecTab == InitTab /\ [][NextTab]_vars

\* Inputs of the quantize_beats runs: every beat value within MaxBeatValue
\* of 0 in steps of 1/6000 beat, negative values, grid points and the ties
\* between two grid points (0.125, 0.375 beat, ...) included.
MaxBeatValue == 4500

InitQuantize ==
    /\ pc = "quantize_call"
    /\ beat_value \in (0 - MaxBeatValue)..MaxBeatValue
    /\ quantized_once = <<>>
    /\ quantized_twice = <<>>
    /\ FilterIdle
    /\ PosIdle
    /\ TabIdle

NextQuantize == QuantizeOnce \/ QuantizeAgain

SpecQuantize == InitQuantize /\ [][NextQuantize]_vars

\* Inputs of the transcribe runs, in any order: a low note at 0.03 s and one
\* at 0.049 s, higher notes at 0.0 s of the same group (one of just 0.05 s),
\* a weak octave, a quiet high note, a note above the fretboard, a later
\* note, and notes that are too short, empty (end = start) or reversed
\* (end < start).
TranscribeNotes ==
    {Note(30, 530, 52, 10), Note(49, 549, 40, 9), Note(0, 500, 57, 9),
     Note(0, 50, 57, 9), Note(0, 500, 64, 5), Note(30, 530, 76, 2),
     Note(60, 560, 85, 9), Note(1000, 1500, 45, 9), Note(0, 49, 45, 9),
     Note(30, 30, 52, 9), Note(500, 0, 45, 9)}

InitTranscribe ==
    /\ pc = "filter_call"
    /\ notes \in SeqsUpTo(TranscribeNotes, MaxNotes)
    /\ groups = <<>>
    /\ gi = 1
    /\ filtered_notes = <<>>
    /\ final_result = <<>>
    /\ PosIdle
    /\ TabIdle
    /\ QuantIdle

NextTranscribe ==
    FilterReturnEmpty \/ FilterSortAndGroup \/ FilterSingle \/ FilterHarmonic
    \/ FilterCleanup \/ TranscribeCallPositions \/ PosReturnEmpty \/ PosStart
    \/ PosSkip \/ PosEmit \/ PosReturn \/ TranscribeReturn

SpecTranscribe == InitTranscribe /\ [][NextTranscribe]_vars

(***************************************************************************)
(* Properties of _notes_to_guitar_positions                                *)
(***************************************************************************)

StringFret(evs) == [i \in 1..Len(evs) |-> <<evs[i].string, evs[i].fret>>]

C1Input == <<Note(0, 500, 40, 9), Note(500, 1000, 45, 9)>>

\* C1 (as stated): on the notes (0.0, 0.5, 40, 0.9), (0.5, 1.0, 45, 0.9) the
\* fingering emits (string 6, fret 0) then (string 5, fret 0), and the hand
\* position is 0 after each of the two steps.
C1_OpenStringsScenario ==
    pnotes = C1Input =>
        /\ (pc = "pos_loop" /\ idx = 2 =>
                StringFret(tab_events) = << <<6, 0>> >> /\ current_hand_pos = 0)
        /\ (idx = 3 =>
                StringFret(tab_events) = << <<6, 0>>, <<5, 0>> >>
                /\ current_hand_pos = 0)

\* C1 (amended): on the same two notes the fingering emits exactly two
\* events, (string 6, fret 0) then (string 6, fret 5); the hand position is
\* 0 after the first step and 5 after the second.
C1_LowestStringScenario ==
    pnotes = C1Input =>
        /\ (pc = "pos_loop" /\ idx = 2 =>
                StringFret(tab_events) = << <<6, 0>> >> /\ current_hand_pos = 0)
        /\ (idx = 3 =>
                StringFret(tab_events) = << <<6, 0>>, <<6, 5>> >>
                /\ current_hand_pos = 5)

C1_Witness ==
    pnotes = C1Input /\ pc = "pos_done" /\ Len(tab_events) = 2

\* C2: every emitted event has 1 <= string <= 6 and 0 <= fret <= 20, for
\* every input sequence, pitches outside the instrument's range included.
C2_EventsInRange ==
    \A i \in 1..Len(tab_events) :
        /\ 1 <= tab_events[i].string /\ tab_events[i].string <= 6
        /\ 0 <= tab_events[i].fret /\ tab_events[i].fret <= 20

\* A finished run that dropped a note below the range and one above it and
\* emitted an event at fret 20.
C2_Witness ==
    /\ pc = "pos_done"
    /\ \E i \in 1..Len(tab_events) : tab_events[i].fret = 20
    /\ \E i \in 1..Len(pnotes) : pnotes[i].pitch < 40
    /\ \E i \in 1..Len(pnotes) : pnotes[i].pitch > 84
    /\ Len(tab_events) = 1

\* The cost as the claim states it.
ClaimCost(fret, H) ==
    (IF fret = 0 \/ H = 0 THEN 0 ELSE Abs(fret - H))
    + (IF fret - 12 > 0 THEN fret - 12 ELSE 0) * 2

\* The strings s with 0 <= P - open(s) <= 20.
ClaimCandidates(P) ==
    {s \in 1..6 : 0 <= P - open_strings[s] /\ P - open_strings[s] <= 20}

C3_Step ==
    (pc = "pos_loop" /\ idx <= Len(pnotes)) =>
        LET P == pnotes[idx].pitch
            H == current_hand_pos
            cands == ClaimCandidates(P)
        IN IF cands = {}
           THEN tab_events' = tab_events /\ pc' = "pos_loop"
           ELSE /\ Len(tab_events') = Len(tab_events) + 1
                /\ SubSeq(tab_events', 1, Len(tab_events)) = tab_events
                /\ LET e == tab_events'[Len(tab_events')]
                   IN /\ e.string \in cands
                      /\ open_strings[e.string] + e.fret = P
                      /\ \A s \in cands :
                            LET c == ClaimCost(P - open_strings[s], H)
                            IN /\ ClaimCost(e.fret, H) <= c
                               /\ (c = ClaimCost(e.fret, H) => s <= e.string)

RECURSIVE LastPressedFret(_)
\* The fret of the last event with fret > 0, or 0 when there is none.
LastPressedFret(evs) ==
    IF evs = <<>> THEN 0
    ELSE IF evs[Len(evs)].fret > 0 THEN evs[Len(evs)].fret
    ELSE LastPressedFret(SubSeq(evs, 1, Len(evs) - 1))

\* C4: the hand position equals the fret of the most recently emitted event
\* with fret > 0, or 0 when there is none; open-string events and dropped
\* notes leave it unchanged.
C4_HandPosition ==
    /\ current_hand_pos = LastPressedFret(tab_events)
    /\ (pc = "pos_call" => current_hand_pos = 0)

\* A run that emitted a fretted event, then an open-string event, then
\* dropped a note, with the hand still at the fretted event.
C4_Witness ==
    /\ pc = "pos_done"
    /\ Len(pnotes) = 3
    /\ Len(tab_events) = 2
    /\ possible_positions(pnotes[3].pitch) = <<>>
    /\ tab_events[1].fret > 0
    /\ tab_events[2].fret = 0
    /\ current_hand_pos = tab_events[1].fret

EmitsForCurrentNote ==
    /\ pc = "pos_loop"
    /\ idx <= Len(pnotes)
    /\ Len(tab_events') = Len(tab_events) + 1

\* C9 (as stated): every emitted event carries the start and the end of the
\* note it was made from, unchanged.
C9_TimesUnchanged ==
    [][EmitsForCurrentNote =>
        LET e == tab_events'[Len(tab_events')]
        IN e.start = pnotes[idx].start /\ e.end = pnotes[idx].end]_vars

\* C9 (amended): every emitted event carries its note's start and end minus
\* the start of the first note of the input; a difference below 0 becomes 0
\* for the start and 0.1 s for the end.
C9_TimesShifted ==
    [][EmitsForCurrentNote =>
        LET e == tab_events'[Len(tab_events')]
            s == pnotes[idx].start - pnotes[1].start
            t == pnotes[idx].end - pnotes[1].start
        IN /\ e.start = (IF s < 0 THEN 0 ELSE s)
           /\ e.end = (IF t < 0 THEN 100 ELSE t)]_vars

\* A finished run whose first note starts after 0 and whose second note lies
\* wholly before it: its event is clamped to start 0 and end 0.1 s.
C9_Witness ==
    /\ pc = "pos_done"
    /\ Len(tab_events) = 2
    /\ pnotes[1].start > 0
    /\ pnotes[2].end < pnotes[1].start
    /\ tab_events[2].start = 0
    /\ tab_events[2].end = 100

(***************************************************************************)
(* Properties of _filter_notes                                             *)
(***************************************************************************)

Occurrences(seq, x) == Cardinality({i \in 1..Len(seq) : seq[i] = x})

Members(seq) == {seq[i] : i \in 1..Len(seq)}

\* The removal rule as the claim states it, for member m and root r.
ClaimRemoved(m, r) ==
    LET interval == m.pitch - r.pitch
    IN \/ interval \in {7, 12, 19, 24} /\ 10 * m.velocity < 8 * r.velocity
       \/ interval \in {4, 16} /\ 2 * m.velocity < r.velocity

\* What one harmonic step on the group g (in time order, before the code
\* sorts it) appends: the root and the members the rule does not remove, each
\* as often as it occurs, where the root is a member of lowest pitch.
C5_Step ==
    (pc = "filter_harmonic" /\ gi <= Len(groups) /\ Len(groups[gi]) > 1) =>
        LET g == groups[gi]
            passed == SubSeq(filtered_notes', Len(filtered_notes) + 1,
                             Len(filtered_notes'))
        IN /\ SubSeq(filtered_notes', 1, Len(filtered_notes)) = filtered_notes
           /\ \E r \in 1..Len(g) :
                /\ \A j \in 1..Len(g) : g[r].pitch <= g[j].pitch
                /\ LET kept == {j \in 1..Len(g) :
                                    j = r \/ ~ClaimRemoved(g[j], g[r])}
                   IN \A x \in Members(g) \cup Members(passed) :
                        Occurrences(passed, x)
                            = Cardinality({j \in kept : g[j] = x})

\* C5: in a group of more than one note a non-root member is removed by the
\* harmonic step exactly when its interval above the root is 7, 12, 19 or 24
\* with velocity below 0.8 times the root's, or 4 or 16 with velocity below
\* 0.5 times the root's; the root and every other member pass.
C5_HarmonicRemoval == [][C5_Step]_vars

\* A group of a root at velocity 1.0 with two members at +12 semitones, one
\* at velocity 0.5 and one at 0.9: the first is removed, the second is kept.
C5_Witness ==
    /\ pc = "filter_harmonic"
    /\ gi = 2
    /\ Len(groups) = 1
    /\ Members(groups[1])
         = {Note(0, 500, 52, 10), Note(0, 500, 64, 5), Note(0, 500, 64, 9)}
    /\ filtered_notes = <<Note(0, 500, 52, 10), Note(0, 500, 64, 9)>>

\* C6: the sequence returned by _filter_notes is time-ascending: each
\* returned note's start is >= the start of the note returned before it.
C6_ReturnedTimeAscending ==
    pc = "filter_done" =>
        \A i \in 1..(Len(final_result) - 1) :
            final_result[i].start <= final_result[i + 1].start

\* C14: _filter_notes leaves the caller's note sequence as it was: the same
\* notes in the same order at every step of the call, whatever the order of
\* the input.
C14_InputNotMutated == [][notes' = notes]_vars

(***************************************************************************)
(* Properties of TabResult and its encoders                                *)
(***************************************************************************)

\* The distance from beat value b to the nearest multiple of grid spacing g.
GridError(b, g) == IF b % g < g - (b % g) THEN b % g ELSE g - (b % g)

\* 1/4, 1/3, 1/6 and 1/8 of a beat.
ClaimGrids == {1500, 2000, 1000, 750}

\* q is a grid point of minimum absolute error for b over all four grids.
NearestOverAllGrids(q, b) ==
    /\ \E g \in ClaimGrids : q % g = 0
    /\ \A g \in ClaimGrids : Abs(q - b) <= GridError(b, g)

NearestQuarter(q, b) ==
    /\ q % 1500 = 0
    /\ 2 * Abs(q - b) <= 1500
    /\ (2 * Abs(q - b) = 1500 => (q \div 1500) % 2 = 0)

EndBeforeLegato(group) ==
    MaxEnd([i \in 1..Len(group) |-> QuantizedEvent(group[i].event, bpm)])

RestTokens == {"r" \o duration_table[i][2] : i \in 1..Len(duration_table)}

\* The index in tokens of the token of the k-th chord group.
GroupTokenIndex(k) ==
    CHOOSE i \in 1..Len(tokens) :
        /\ tokens[i] \notin RestTokens
        /\ Cardinality({j \in 1..i : tokens[j] \notin RestTokens}) = k

RestBeforeGroup(k) == tokens[GroupTokenIndex(k) - 1] \in RestTokens

\* C8: for adjacent chord groups, a gap (next start minus previous end)
\* above 0 and below 1 beat extends the previous group's end to the next
\* group's start and emits no rest between them; a gap of 1 beat or more
\* leaves the previous end unchanged and emits a rest between them.
C8_LegatoOrRest ==
    pc = "ly_write" =>
        \A k \in 1..(Len(grouped_events) - 1) :
            LET prev == grouped_events[k]
                next == grouped_events[k + 1]
                gap == next[1].start - EndBeforeLegato(prev)
            IN /\ (0 < gap /\ gap < 6000 =>
                      MaxEnd(prev) = next[1].start /\ ~RestBeforeGroup(k + 1))
               /\ (gap >= 6000 =>
                      MaxEnd(prev) = EndBeforeLegato(prev)
                      /\ RestBeforeGroup(k + 1))

\* C10: on a TabResult without events to_text returns "(no notes)", to_json
\* returns an empty event list with the bpm, and to_lilypond raises an error
\* with no file written, whatever compile_output is.
C10_EmptyResult ==
    events = <<>> =>
        /\ (pc = "text_returned" => text_out = <<"(no notes)">>)
        /\ (pc \in {"json_returned", "json_decoded"} =>
                json_out = <<[events |-> <<>>, bpm |-> bpm]>>)
        /\ (pc \notin {"tab_idle", "text_returned", "json_returned",
                        "json_decoded"} =>
                /\ pc = "ly_raised"
                /\ raised = "ValueError"
                /\ ly_file = <<>>
                /\ renderer_runs = <<>>
                /\ returned = <<>>)

\* to_lilypond has raised on an empty TabResult with a bpm, called with a
\* compile_output for the renderer.
C10_Witness ==
    /\ events = <<>>
    /\ bpm = <<120>>
    /\ pc = "ly_raised"
    /\ compile_output = <<"score.svg">>

\* C11: decoding what to_json returned, with from_tab_events on its "events"
\* and its "bpm", gives a TabResult equal to the encoded one: the same events
\* (string, fret, start, end) in the same order, and the same bpm.
C11_JsonRoundTrip ==
    pc = "json_decoded" => decoded = <<[events |-> events, bpm |-> bpm]>>

\* A result of several events out of time order, with a bpm, has been
\* encoded and decoded.
C11_Witness ==
    /\ pc = "json_decoded"
    /\ Len(events) = 3
    /\ events[1].start > events[2].start
    /\ events[1].string # events[3].string
    /\ bpm = <<60>>
    /\ decoded # <<>>

\* The notation source that to_lilypond builds from the TabResult.
ClaimSource ==
    LilypondSource(LyTitle,
        TokenLoop(GroupChords(LegatoFrom(QuantizeAll(events, bpm), 1)),
                  1, <<>>, 0),
        bpm)

\* C12: a call of to_lilypond on a non-empty TabResult with a compile_output
\* ending in .svg, .png or .pdf that finds no renderer executable ends in an
\* error raised to the caller, with the whole notation source in the file
\* and without any run of the renderer.
C12_RendererNotFound ==
    (/\ events # <<>>
     /\ pc \in {"ly_raised", "ly_returned"}
     /\ which_result = "None")
    => /\ ly_file = <<ClaimSource>>
       /\ pc = "ly_raised"
       /\ raised = "FileNotFoundError"
       /\ returned = <<>>
       /\ renderer_runs = <<>>

\* Such a call has ended: a result of two events, a .PNG output path, no
\* executable.
C12_Witness ==
    /\ Len(events) = 2
    /\ compile_output = <<"score.PNG">>
    /\ which_result = "None"
    /\ pc = "ly_raised"
    /\ ly_file # <<>>

(***************************************************************************)
(* Properties of quantize_beats                                            *)
(***************************************************************************)

\* C13: quantize_beats is idempotent: applied to its own result it returns
\* that result, for every beat value.
C13_QuantizeIdempotent ==
    pc = "quantize_twice" => quantized_twice = quantized_once

\* An off-grid value on a tie (0.375 beat, rounded to 0.5) has been
\* quantized twice.
C13_Witness ==
    /\ pc = "quantize_twice"
    /\ beat_value = 2250
    /\ quantized_once = <<3000>>
    /\ quantized_twice # <<>>

(***************************************************************************)
(* Properties of transcribe                                                *)
(***************************************************************************)

ValidTimes(e) == e.start >= 0 /\ e.end > e.start

\* C15: every event that _notes_to_guitar_positions makes from the notes
\* _filter_notes returned has start >= 0 and end > start, whatever the input
\* notes: empty or reversed notes and notes out of time order included.
C15_EventTimesValid ==
    /\ \A i \in 1..Len(tab_events) : ValidTimes(tab_events[i])
    /\ \A i \in 1..Len(events) : ValidTimes(events[i])

\* A run on an input with a reversed note has returned two events, the
\* second from a note of 0.05 s that starts before the first note of the
\* filtered sequence and ends 0.001 s after it.
C15_Witness ==
    /\ pc = "transcribed"
    /\ \E i \in 1..Len(notes) : notes[i].end <= notes[i].start
    /\ Len(events) = 2
    /\ first_start = 49
    /\ events[2].start = 0
    /\ events[2].end = 1

====
